---- MODULE Spec2Model ----
(***************************************************************************)
(* The escrow program: the Make (open trade) and Take (settle trade)       *)
(* instructions over a ledger of accounts.  Keys are numbers; the ledger   *)
(* holds the escrow records owned by the program, the token accounts and   *)
(* the lamports of the wallets.                                            *)
(***************************************************************************)
EXTENDS Integers, Sequences, FiniteSets, TLC

\* ------------------------------------------------------------------ bounds
MaxSeed == 1
MaxReceive == 1
MaxAmount == 2
InitTokens == 2
InitLamports == 8000000
MaxRequests == 3

\* ------------------------------------------------------------------ keys
Wallets == {1, 2}
MintKeys == {11, 12}
ProgramKeys == <<21, 22, 23>>
Seeds == 0 .. MaxSeed
Receives == 0 .. MaxReceive
Amounts == 0 .. MaxAmount

NoAccount == [exists |-> FALSE]

\* u64::to_le_bytes / u64::from_le_bytes
RECURSIVE LeBytes(_, _)
LeBytes(n, len) ==
    IF len = 0 THEN << >> ELSE <<n % 256>> \o LeBytes(n \div 256, len - 1)

to_le_bytes(n) == LeBytes(n, 8)

RECURSIVE from_le_bytes(_)
from_le_bytes(b) ==
    IF b = << >> THEN 0 ELSE Head(b) + 256 * from_le_bytes(Tail(b))

\* A hash that leaves the seed bytes out.
ShaIgnoringSeed(maker, seedBytes, bump) ==
    1000 + (maker * 8) * 256 + bump

\* The hash behind program addresses: injective in (maker, seed bytes, bump).
Sha(maker, seedBytes, bump) ==
    1000 + (maker * 8 + from_le_bytes(seedBytes)) * 256 + bump

\* Whether a hash is a point of the signature curve.
OnCurve(h) == h % 3 = 0

\* create_program_address(["escrow", maker, seed bytes, bump], ID):
\* fails when the hash lies on the curve.
create_program_address(maker, seedBytes, bump) ==
    LET h == Sha(maker, seedBytes, bump)
    IN  IF OnCurve(h) THEN [ok |-> FALSE, key |-> 0]
        ELSE [ok |-> TRUE, key |-> h]

\* find_program_address(["escrow", maker, seed bytes], ID): the first bump,
\* scanning from 255 downward, whose address is off the curve.
RECURSIVE TryBump(_, _, _)
TryBump(maker, seedBytes, bump) ==
    LET r == create_program_address(maker, seedBytes, bump)
    IN  IF r.ok THEN <<r.key, bump>>
        ELSE TryBump(maker, seedBytes, bump - 1)

find_program_address(maker, seedBytes) == TryBump(maker, seedBytes, 255)

\* tests/pda.rs
get_escrow_pda(maker, seed) == find_program_address(maker, to_le_bytes(seed))[1]

PdaKeys == {get_escrow_pda(w, s) : w \in Wallets, s \in Seeds}
Owners == Wallets \cup PdaKeys

\* The associated token account address of (owner, mint).
Ata(owner, mint) == 1000000 + owner * 100 + mint

AtaKeys == {Ata(o, m) : o \in Owners, m \in MintKeys}

VARIABLES escrows, tokens, lamports, prev, last, requests

vars == <<escrows, tokens, lamports, prev, last, requests>>

\* ------------------------------------------------------------ the ledger
\* A world is the ledger a request runs against: escrows (the accounts owned
\* by this program), tokens (the token accounts) and lamports (of wallets).
World(e, t, l) == [escrows |-> e, tokens |-> t, lamports |-> l]

\* Escrow::LEN: seed | maker | mint_a | mint_b | receive | bump
EscrowLen == 8 + 32 + 32 + 32 + 8 + 1
TokenAccountLen == 165

\* The storage deposit that keeps an account of `space` bytes alive.
MinimumBalance(space) == (128 + space) * 6960

Pass(w, log) == [ok |-> TRUE, err |-> "", w |-> w, log |-> log]
Fail(e, w, log) == [ok |-> FALSE, err |-> e, w |-> w, log |-> log]

\* ------------------------------------------------- account validators
\* SignerAccount::check
SignerCheck(account) == account.is_signer

\* MintInterface::check
MintCheck(account) == account.key \in MintKeys

\* ProgramAccount::check: owned by this program, with the record's length.
ProgramAccountCheck(w, account) ==
    /\ account.key \in DOMAIN w.escrows
    /\ w.escrows[account.key].exists

\* AssociatedTokenAccount::check: a token account at the address derived
\* from (owner, token program, mint).
AssociatedTokenAccountCheck(w, account, owner, mint) ==
    /\ account.key \in DOMAIN w.tokens
    /\ w.tokens[account.key].exists
    /\ account.key = Ata(owner.key, mint.key)

\* ------------------------------------------------- collaborator calls
\* System CreateAccount signed with the escrow seeds (ProgramAccount::init):
\* the new account is zero-filled, owned by this program, paid by payer.
ProgramAccountInit(w, payer, account, signerKey, space, log) ==
    IF account.key # signerKey
    THEN Fail("MissingRequiredSignature", w, log)
    ELSE IF w.escrows[account.key].exists
    THEN Fail("AccountAlreadyInUse", w, log)
    ELSE IF w.lamports[payer.key] < MinimumBalance(space)
    THEN Fail("InsufficientRent", w, log)
    ELSE Pass([w EXCEPT
                 !.escrows[account.key] =
                     [exists |-> TRUE, seed |-> 0, maker |-> 0,
                      mint_a |-> 0, mint_b |-> 0, receive |-> 0,
                      bump |-> 0],
                 !.lamports[payer.key] = @ - MinimumBalance(space)],
              Append(log, "InitEscrow"))

\* Associated-token Create (AssociatedTokenAccount::init): unconditional.
AssociatedTokenAccountInit(w, account, mint, payer, owner, log) ==
    IF account.key # Ata(owner.key, mint.key)
    THEN Fail("InvalidSeeds", w, log)
    ELSE IF w.tokens[account.key].exists
    THEN Fail("AccountAlreadyInUse", w, log)
    ELSE IF w.lamports[payer.key] < MinimumBalance(TokenAccountLen)
    THEN Fail("InsufficientRent", w, log)
    ELSE Pass([w EXCEPT
                 !.tokens[account.key] =
                     [exists |-> TRUE, mint |-> mint.key,
                      owner |-> owner.key, amount |-> 0],
                 !.lamports[payer.key] = @ - MinimumBalance(TokenAccountLen)],
              Append(log, "InitAta"))

\* AssociatedTokenAccount::init_if_needed: create-if-absent.
AssociatedTokenAccountInitIfNeeded(w, account, mint, payer, owner, log) ==
    IF AssociatedTokenAccountCheck(w, account, owner, mint)
    THEN Pass(w, log)
    ELSE AssociatedTokenAccountInit(w, account, mint, payer, owner, log)

\* A Transfer that credits the destination without debiting the source.
TransferNoDebit(w, from, to, authority, signed, amount, step, log) ==
    IF \/ from.key \notin DOMAIN w.tokens \/ ~w.tokens[from.key].exists
       \/ to.key \notin DOMAIN w.tokens \/ ~w.tokens[to.key].exists
    THEN Fail("InvalidAccountData", w, log)
    ELSE IF w.tokens[from.key].amount < amount
    THEN Fail("InsufficientFunds", w, log)
    ELSE Pass([w EXCEPT !.tokens[to.key].amount = @ + amount],
              Append(log, step))

\* Token Transfer { from, to, authority, amount }; `signed` says whether the
\* authority signs the call (a wallet's signature, or the escrow seeds).
Transfer(w, from, to, authority, signed, amount, step, log) ==
    IF \/ from.key \notin DOMAIN w.tokens \/ ~w.tokens[from.key].exists
       \/ to.key \notin DOMAIN w.tokens \/ ~w.tokens[to.key].exists
    THEN Fail("InvalidAccountData", w, log)
    ELSE IF w.tokens[from.key].amount < amount
    THEN Fail("InsufficientFunds", w, log)
    ELSE IF w.tokens[from.key].mint # w.tokens[to.key].mint
    THEN Fail("MintMismatch", w, log)
    ELSE IF w.tokens[from.key].owner # authority.key
    THEN Fail("OwnerMismatch", w, log)
    ELSE IF ~signed
    THEN Fail("MissingRequiredSignature", w, log)
    ELSE IF from.key = to.key
    THEN Pass(w, Append(log, step))
    ELSE Pass([w EXCEPT !.tokens[from.key].amount = @ - amount,
                        !.tokens[to.key].amount = @ + amount],
              Append(log, step))

\* Token CloseAccount { account, destination, authority }.
CloseAccount(w, account, destination, authority, signed, log) ==
    IF account.key \notin DOMAIN w.tokens \/ ~w.tokens[account.key].exists
    THEN Fail("InvalidAccountData", w, log)
    ELSE IF w.tokens[account.key].amount # 0
    THEN Fail("NonNativeHasBalance", w, log)
    ELSE IF w.tokens[account.key].owner # authority.key
    THEN Fail("OwnerMismatch", w, log)
    ELSE IF ~signed
    THEN Fail("MissingRequiredSignature", w, log)
    ELSE Pass([w EXCEPT
                 !.tokens[account.key] = NoAccount,
                 !.lamports[destination.key] = @ + MinimumBalance(TokenAccountLen)],
              Append(log, "CloseVault"))

\* ProgramAccount::close: zero the record, return its deposit.
ProgramAccountClose(w, account, destination, log) ==
    Pass([w EXCEPT
            !.escrows[account.key] = NoAccount,
            !.lamports[destination.key] = @ + MinimumBalance(EscrowLen)],
         Append(log, "CloseEscrow"))

\* ------------------------------------------------------------------ Make
\* MakeAccounts::try_from
MakeAccountsTryFrom(w, accounts) ==
    IF Len(accounts) # 9
    THEN [ok |-> FALSE, err |-> "NotEnoughAccountKeys"]
    ELSE LET maker == accounts[1]
             mint_a == accounts[3]
             mint_b == accounts[4]
             maker_ata_a == accounts[5]
         IN  IF ~SignerCheck(maker)
             THEN [ok |-> FALSE, err |-> "NotSigner"]
             ELSE IF ~MintCheck(mint_a) \/ ~MintCheck(mint_b)
             THEN [ok |-> FALSE, err |-> "InvalidMint"]
             ELSE IF ~AssociatedTokenAccountCheck(w, maker_ata_a, maker, mint_a)
             THEN [ok |-> FALSE, err |-> "InvalidAssociatedTokenAccount"]
             ELSE [ok |-> TRUE, err |-> "",
                   maker |-> maker, escrow |-> accounts[2],
                   mint_a |-> mint_a, mint_b |-> mint_b,
                   maker_ata_a |-> maker_ata_a, vault |-> accounts[6]]

\* MakeInstructionData::try_from without its `amount == 0` rejection.
MakeInstructionDataTryFromAnyAmount(data) ==
    IF Len(data) # 8 * 3
    THEN [ok |-> FALSE, err |-> "InvalidInstructionData"]
    ELSE [ok |-> TRUE, err |-> "",
          seed |-> from_le_bytes(SubSeq(data, 1, 8)),
          receive |-> from_le_bytes(SubSeq(data, 9, 16)),
          amount |-> from_le_bytes(SubSeq(data, 17, 24))]

\* MakeInstructionData::try_from with `<` in place of `!=` in the length test.
MakeInstructionDataTryFromAtLeast(data) ==
    IF Len(data) < 8 * 3
    THEN [ok |-> FALSE, err |-> "InvalidInstructionData"]
    ELSE LET amount == from_le_bytes(SubSeq(data, 17, 24))
         IN  IF amount = 0
             THEN [ok |-> FALSE, err |-> "InvalidInstructionData"]
             ELSE [ok |-> TRUE, err |-> "",
                   seed |-> from_le_bytes(SubSeq(data, 1, 8)),
                   receive |-> from_le_bytes(SubSeq(data, 9, 16)),
                   amount |-> amount]

\* MakeInstructionData::try_from
MakeInstructionDataTryFrom(data) ==
    IF Len(data) # 8 * 3
    THEN [ok |-> FALSE, err |-> "InvalidInstructionData"]
    ELSE LET seed == from_le_bytes(SubSeq(data, 1, 8))
             receive == from_le_bytes(SubSeq(data, 9, 16))
             amount == from_le_bytes(SubSeq(data, 17, 24))
         IN  IF amount = 0
             THEN [ok |-> FALSE, err |-> "InvalidInstructionData"]
             ELSE [ok |-> TRUE, err |-> "",
                   seed |-> seed, receive |-> receive, amount |-> amount]

\* Make::try_from with a create-if-absent of the escrow record account in
\* place of the unconditional ProgramAccount::init.
MakeInitEscrowIfNeeded(w, a, d) ==
    IF ProgramAccountCheck(w, a.escrow) THEN Pass(w, << >>)
    ELSE ProgramAccountInit(
             w, a.maker, a.escrow,
             find_program_address(a.maker.key, to_le_bytes(d.seed))[1],
             EscrowLen, << >>)

\* Make::try_from, first call: ProgramAccount::init::<Escrow> at the address
\* the canonical bump of (maker, seed) signs for.
MakeInitEscrow(w, a, d) ==
    LET bump == find_program_address(a.maker.key, to_le_bytes(d.seed))[2]
        signer == create_program_address(
                      a.maker.key, to_le_bytes(d.seed), bump)
    IN  ProgramAccountInit(w, a.maker, a.escrow, signer.key, EscrowLen, << >>)

\* Make::try_from, second call: the vault, owned by the escrow, paid by maker.
MakeInitVault(r, a) ==
    AssociatedTokenAccountInit(r.w, a.vault, a.mint_a, a.maker, a.escrow, r.log)

\* Make::try_from: the two parsers, then the escrow record account and the
\* vault are created.
MakeTryFrom(w, data, accounts) ==
    LET a == MakeAccountsTryFrom(w, accounts)
    IN  IF ~a.ok THEN Fail(a.err, w, << >>)
        ELSE
        LET d == MakeInstructionDataTryFrom(data)
        IN  IF ~d.ok THEN Fail(d.err, w, << >>)
            ELSE
            LET r1 == MakeInitEscrow(w, a, d)
            IN  IF ~r1.ok THEN r1
                ELSE
                LET r2 == MakeInitVault(r1, a)
                IN  IF ~r2.ok THEN r2
                    ELSE [ok |-> TRUE, err |-> "", w |-> r2.w,
                          log |-> r2.log, accounts |-> a,
                          instruction_data |-> d,
                          bump |-> find_program_address(
                                       a.maker.key, to_le_bytes(d.seed))[2]]

\* Escrow::set_inner
set_inner(seed, maker, mint_a, mint_b, receive, bump) ==
    [exists |-> TRUE, seed |-> seed, maker |-> maker, mint_a |-> mint_a,
     mint_b |-> mint_b, receive |-> receive, bump |-> bump]

\* Make::process storing bump 0 in place of the canonical bump.
MakePopulateBumpZero(self) ==
    LET a == self.accounts
        d == self.instruction_data
    IN  Pass([self.w EXCEPT !.escrows[a.escrow.key] =
                 set_inner(d.seed, a.maker.key, a.mint_a.key, a.mint_b.key,
                           d.receive, 0)],
             Append(self.log, "SetInner"))

\* Make::process populating the record with mint_a and mint_b exchanged.
MakePopulateSwapped(self) ==
    LET a == self.accounts
        d == self.instruction_data
    IN  Pass([self.w EXCEPT !.escrows[a.escrow.key] =
                 set_inner(d.seed, a.maker.key, a.mint_b.key, a.mint_a.key,
                           d.receive, self.bump)],
             Append(self.log, "SetInner"))

\* Make::process, first step: populate the escrow account.
MakePopulate(self) ==
    LET a == self.accounts
        d == self.instruction_data
    IN  Pass([self.w EXCEPT !.escrows[a.escrow.key] =
                 set_inner(d.seed, a.maker.key, a.mint_a.key, a.mint_b.key,
                           d.receive, self.bump)],
             Append(self.log, "SetInner"))

\* Make::process depositing one token less than the payload's amount.
MakeDepositShort(r, self) ==
    LET a == self.accounts
    IN  Transfer(r.w, a.maker_ata_a, a.vault, a.maker, a.maker.is_signer,
                 self.instruction_data.amount - 1, "TransferToVault", r.log)

\* Make::process, second step: transfer tokens to vault, signed by the maker.
MakeDeposit(r, self) ==
    LET a == self.accounts
    IN  Transfer(r.w, a.maker_ata_a, a.vault, a.maker, a.maker.is_signer,
                 self.instruction_data.amount, "TransferToVault", r.log)

\* Make::process
MakeProcess(self) ==
    LET r1 == MakePopulate(self)
    IN  MakeDeposit(r1, self)

\* One Make request: Make::try_from((data, accounts))?.process()
MakeRun(w, data, accounts) ==
    LET self == MakeTryFrom(w, data, accounts)
    IN  IF ~self.ok THEN Fail(self.err, self.w, self.log)
        ELSE MakeProcess(self)

\* ------------------------------------------------------------------ Take
\* TakeAccounts::try_from with the mint checks moved before the
\* program-ownership check.
TakeAccountsTryFromMintFirst(w, accounts) ==
    IF Len(accounts) # 12
    THEN [ok |-> FALSE, err |-> "NotEnoughAccountKeys"]
    ELSE LET taker == accounts[1]
             escrow == accounts[3]
             mint_a == accounts[4]
             mint_b == accounts[5]
         IN  IF ~SignerCheck(taker)
             THEN [ok |-> FALSE, err |-> "NotSigner"]
             ELSE IF ~MintCheck(mint_a) \/ ~MintCheck(mint_b)
             THEN [ok |-> FALSE, err |-> "InvalidMint"]
             ELSE IF ~ProgramAccountCheck(w, escrow)
             THEN [ok |-> FALSE, err |-> "InvalidOwner"]
             ELSE IF ~AssociatedTokenAccountCheck(w, accounts[8], taker, mint_b)
             THEN [ok |-> FALSE, err |-> "InvalidAssociatedTokenAccount"]
             ELSE IF ~AssociatedTokenAccountCheck(w, accounts[6], escrow, mint_a)
             THEN [ok |-> FALSE, err |-> "InvalidAssociatedTokenAccount"]
             ELSE [ok |-> TRUE, err |-> "",
                   taker |-> taker, maker |-> accounts[2], escrow |-> escrow,
                   mint_a |-> mint_a, mint_b |-> mint_b, vault |-> accounts[6],
                   taker_ata_a |-> accounts[7], taker_ata_b |-> accounts[8],
                   maker_ata_b |-> accounts[9]]

\* TakeAccounts::try_from with a signer check on the maker as well.
TakeAccountsTryFromMakerSigns(w, accounts) ==
    IF Len(accounts) # 12
    THEN [ok |-> FALSE, err |-> "NotEnoughAccountKeys"]
    ELSE LET taker == accounts[1]
             maker == accounts[2]
             escrow == accounts[3]
             mint_a == accounts[4]
             mint_b == accounts[5]
         IN  IF ~SignerCheck(taker) \/ ~SignerCheck(maker)
             THEN [ok |-> FALSE, err |-> "NotSigner"]
             ELSE IF ~ProgramAccountCheck(w, escrow)
             THEN [ok |-> FALSE, err |-> "InvalidOwner"]
             ELSE IF ~MintCheck(mint_a) \/ ~MintCheck(mint_b)
             THEN [ok |-> FALSE, err |-> "InvalidMint"]
             ELSE IF ~AssociatedTokenAccountCheck(w, accounts[8], taker, mint_b)
             THEN [ok |-> FALSE, err |-> "InvalidAssociatedTokenAccount"]
             ELSE IF ~AssociatedTokenAccountCheck(w, accounts[6], escrow, mint_a)
             THEN [ok |-> FALSE, err |-> "InvalidAssociatedTokenAccount"]
             ELSE [ok |-> TRUE, err |-> "",
                   taker |-> taker, maker |-> maker, escrow |-> escrow,
                   mint_a |-> mint_a, mint_b |-> mint_b, vault |-> accounts[6],
                   taker_ata_a |-> accounts[7], taker_ata_b |-> accounts[8],
                   maker_ata_b |-> accounts[9]]

\* TakeAccounts::try_from
TakeAccountsTryFrom(w, accounts) ==
    IF Len(accounts) # 12
    THEN [ok |-> FALSE, err |-> "NotEnoughAccountKeys"]
    ELSE LET taker == accounts[1]
             maker == accounts[2]
             escrow == accounts[3]
             mint_a == accounts[4]
             mint_b == accounts[5]
             vault == accounts[6]
             taker_ata_a == accounts[7]
             taker_ata_b == accounts[8]
             maker_ata_b == accounts[9]
         IN  IF ~SignerCheck(taker)
             THEN [ok |-> FALSE, err |-> "NotSigner"]
             ELSE IF ~ProgramAccountCheck(w, escrow)
             THEN [ok |-> FALSE, err |-> "InvalidOwner"]
             ELSE IF ~MintCheck(mint_a) \/ ~MintCheck(mint_b)
             THEN [ok |-> FALSE, err |-> "InvalidMint"]
             ELSE IF ~AssociatedTokenAccountCheck(w, taker_ata_b, taker, mint_b)
             THEN [ok |-> FALSE, err |-> "InvalidAssociatedTokenAccount"]
             ELSE IF ~AssociatedTokenAccountCheck(w, vault, escrow, mint_a)
             THEN [ok |-> FALSE, err |-> "InvalidAssociatedTokenAccount"]
             ELSE [ok |-> TRUE, err |-> "",
                   taker |-> taker, maker |-> maker, escrow |-> escrow,
                   mint_a |-> mint_a, mint_b |-> mint_b, vault |-> vault,
                   taker_ata_a |-> taker_ata_a, taker_ata_b |-> taker_ata_b,
                   maker_ata_b |-> maker_ata_b]

\* Take::try_from: the account checks, then create-if-absent of the taker's
\* mint_a account and the maker's mint_b account, both paid by the taker.
TakeTryFrom(w, accounts) ==
    LET a == TakeAccountsTryFrom(w, accounts)
    IN  IF ~a.ok THEN Fail(a.err, w, << >>)
        ELSE
        LET r1 == AssociatedTokenAccountInitIfNeeded(
                      w, a.taker_ata_a, a.mint_a, a.taker, a.taker, << >>)
        IN  IF ~r1.ok THEN r1
            ELSE
            LET r2 == AssociatedTokenAccountInitIfNeeded(
                          r1.w, a.maker_ata_b, a.mint_b, a.taker, a.maker,
                          r1.log)
            IN  IF ~r2.ok THEN r2
                ELSE [ok |-> TRUE, err |-> "", w |-> r2.w, log |-> r2.log,
                      accounts |-> a]

\* Take::process without the comparison of the recomputed address.
TakeCheckEscrowSkipped(self, escrow) ==
    Pass(self.w, Append(self.log, "CheckEscrow"))

\* Take::process: check if the escrow is valid.
TakeCheckEscrow(self, escrow) ==
    LET a == self.accounts
        escrow_key == create_program_address(
                          a.maker.key, to_le_bytes(escrow.seed), escrow.bump)
    IN  IF ~escrow_key.ok THEN Fail("InvalidSeeds", self.w, self.log)
        ELSE IF escrow_key.key # a.escrow.key
        THEN Fail("InvalidAccountOwner", self.w, self.log)
        ELSE Pass(self.w, Append(self.log, "CheckEscrow"))

\* Whether Signer::from(&escrow_seeds) signs for the escrow account.
EscrowSigns(a, escrow) ==
    LET k == create_program_address(
                 a.maker.key, to_le_bytes(escrow.seed), escrow.bump)
    IN  k.ok /\ k.key = a.escrow.key

\* Take::process: TokenAccount::from_account_info(vault)?.amount()
VaultAmount(w, a) == w.tokens[a.vault.key].amount

\* Take::process: transfer from the vault to the taker.
TakeTransferToTaker(r, a, escrow) ==
    Transfer(r.w, a.vault, a.taker_ata_a, a.escrow, EscrowSigns(a, escrow),
             VaultAmount(r.w, a), "TransferToTaker", r.log)

\* Take::process closing the vault with the taker as the destination.
TakeCloseVaultToTaker(r, a, escrow) ==
    CloseAccount(r.w, a.vault, a.taker, a.escrow, EscrowSigns(a, escrow),
                 r.log)

\* Take::process: close the vault.
TakeCloseVault(r, a, escrow) ==
    CloseAccount(r.w, a.vault, a.maker, a.escrow, EscrowSigns(a, escrow),
                 r.log)

\* Take::process with the result of the taker-to-maker transfer dropped
\* (no `?` after invoke()).
TakeTransferToMakerUnchecked(r, a, escrow) ==
    LET t == Transfer(r.w, a.taker_ata_b, a.maker_ata_b, a.taker,
                      a.taker.is_signer, escrow.receive, "TransferToMaker",
                      r.log)
    IN  IF t.ok THEN t ELSE Pass(r.w, r.log)

\* Take::process: transfer from the taker to the maker.
TakeTransferToMaker(r, a, escrow) ==
    Transfer(r.w, a.taker_ata_b, a.maker_ata_b, a.taker, a.taker.is_signer,
             escrow.receive, "TransferToMaker", r.log)

\* Take::process without the closing of the escrow record.
TakeCloseEscrowSkipped(r, a) == Pass(r.w, Append(r.log, "CloseEscrow"))

\* Take::process: close the escrow.
TakeCloseEscrow(r, a) == ProgramAccountClose(r.w, a.escrow, a.maker, r.log)

\* Take::process with the taker's payment moved before the vault payout.
TakeProcessPayFirst(self) ==
    LET a == self.accounts
        escrow == self.w.escrows[a.escrow.key]
        r0 == TakeCheckEscrow(self, escrow)
    IN  IF ~r0.ok THEN r0
        ELSE
        LET r1 == TakeTransferToMaker(r0, a, escrow)
        IN  IF ~r1.ok THEN r1
            ELSE
            LET r2 == TakeTransferToTaker(r1, a, escrow)
            IN  IF ~r2.ok THEN r2
                ELSE
                LET r3 == TakeCloseVault(r2, a, escrow)
                IN  IF ~r3.ok THEN r3
                    ELSE TakeCloseEscrow(r3, a)

\* Take::process
TakeProcess(self) ==
    LET a == self.accounts
        escrow == self.w.escrows[a.escrow.key]
        r0 == TakeCheckEscrow(self, escrow)
    IN  IF ~r0.ok THEN r0
        ELSE
        LET r1 == TakeTransferToTaker(r0, a, escrow)
        IN  IF ~r1.ok THEN r1
            ELSE
            LET r2 == TakeCloseVault(r1, a, escrow)
            IN  IF ~r2.ok THEN r2
                ELSE
                LET r3 == TakeTransferToMaker(r2, a, escrow)
                IN  IF ~r3.ok THEN r3
                    ELSE TakeCloseEscrow(r3, a)

\* One Take request: Take::try_from(accounts)?.process()
TakeRun(w, accounts) ==
    LET self == TakeTryFrom(w, accounts)
    IN  IF ~self.ok THEN Fail(self.err, self.w, self.log)
        ELSE TakeProcess(self)

\* -------------------------------------------------------------- requests
Account(key, is_signer) == [key |-> key, is_signer |-> is_signer]

\* The mint a wallet holds tokens of in the test ledger.
FundedMint(w) == 10 + w

OtherWallet(w) == CHOOSE x \in Wallets : x # w
OtherMint(m) == CHOOSE x \in MintKeys : x # m
OtherSeed(s) == (s + 1) % (MaxSeed + 1)

\* The Make payload: seed | receive | amount, little-endian.
MakeData(seed, receive, amount) ==
    to_le_bytes(seed) \o to_le_bytes(receive) \o to_le_bytes(amount)

\* The account list the client builds for Make (tests::make).
MakeAccountList(maker, signed, escrow, mint_a, mint_b, maker_ata_a, vault) ==
    << Account(maker, signed), Account(escrow, FALSE),
       Account(mint_a, FALSE), Account(mint_b, FALSE),
       Account(maker_ata_a, FALSE), Account(vault, FALSE),
       Account(ProgramKeys[1], FALSE), Account(ProgramKeys[2], FALSE),
       Account(ProgramKeys[3], FALSE) >>

\* The account list the client builds for Take (tests::take).
TakeAccountList(taker, signed, maker, escrow, mint_a, mint_b, vault,
                taker_ata_a, taker_ata_b, maker_ata_b) ==
    << Account(taker, signed), Account(maker, FALSE), Account(escrow, FALSE),
       Account(mint_a, FALSE), Account(mint_b, FALSE), Account(vault, FALSE),
       Account(taker_ata_a, FALSE), Account(taker_ata_b, FALSE),
       Account(maker_ata_b, FALSE),
       Account(ProgramKeys[1], FALSE), Account(ProgramKeys[2], FALSE),
       Account(ProgramKeys[3], FALSE) >>

\* The ways a client's Make request departs from the well-formed one.
MakeShapes ==
    {"ok", "unsigned", "fewer_accounts", "more_accounts", "short_data",
     "long_data", "unsigned_short_data", "other_escrow", "other_vault",
     "other_ata", "not_a_mint"}

MakeRequest(shape, maker, seed, receive, amount, mint_a, mint_b) ==
    LET escrow == IF shape = "other_escrow"
                  THEN get_escrow_pda(maker, OtherSeed(seed))
                  ELSE get_escrow_pda(maker, seed)
        vault == IF shape = "other_vault" THEN Ata(maker, mint_a)
                 ELSE Ata(escrow, mint_a)
        maker_ata_a == IF shape = "other_ata"
                       THEN Ata(OtherWallet(maker), mint_a)
                       ELSE Ata(maker, mint_a)
        list == MakeAccountList(
                    maker, shape \notin {"unsigned", "unsigned_short_data"},
                    escrow, mint_a,
                    IF shape = "not_a_mint" THEN maker ELSE mint_b,
                    maker_ata_a, vault)
        data == MakeData(seed, receive, amount)
    IN  [accounts |->
             IF shape = "fewer_accounts" THEN SubSeq(list, 1, 8)
             ELSE IF shape = "more_accounts"
             THEN Append(list, Account(maker, FALSE))
             ELSE list,
         data |->
             IF shape \in {"short_data", "unsigned_short_data"}
             THEN SubSeq(data, 1, 23)
             ELSE IF shape = "long_data" THEN Append(data, 0)
             ELSE data]

\* The requests clients send: every well-formed Make, and each departure
\* from it on one base request per maker and amount.
MakeRequests ==
    {MakeRequest("ok", maker, seed, receive, amount, mint_a, OtherMint(mint_a)) :
        maker \in Wallets, seed \in Seeds, receive \in Receives,
        amount \in Amounts, mint_a \in MintKeys}
    \cup
    {MakeRequest(shape, maker, 0, MaxReceive, amount, FundedMint(maker),
                 OtherMint(FundedMint(maker))) :
        shape \in MakeShapes, maker \in Wallets, amount \in Amounts}

\* The ways a client's Take request departs from the well-formed one.
TakeShapes ==
    {"ok", "unsigned", "fewer_accounts", "more_accounts", "other_vault",
     "other_taker_ata_a", "other_taker_ata_b", "other_maker_ata_b",
     "not_a_mint"}

TakeRequest(shape, taker, maker, escrow, mint_a, mint_b) ==
    LET vault == IF shape = "other_vault"
                 THEN Ata(escrow, OtherMint(mint_a))
                 ELSE Ata(escrow, mint_a)
        taker_ata_a == IF shape = "other_taker_ata_a"
                       THEN Ata(OtherWallet(taker), mint_a)
                       ELSE Ata(taker, mint_a)
        taker_ata_b == IF shape = "other_taker_ata_b"
                       THEN Ata(OtherWallet(taker), mint_b)
                       ELSE Ata(taker, mint_b)
        maker_ata_b == IF shape = "other_maker_ata_b"
                       THEN Ata(OtherWallet(maker), mint_b)
                       ELSE Ata(maker, mint_b)
        list == TakeAccountList(
                    taker, shape # "unsigned", maker, escrow,
                    IF shape = "not_a_mint" THEN taker ELSE mint_a, mint_b,
                    vault, taker_ata_a, taker_ata_b, maker_ata_b)
    IN  [accounts |->
             IF shape = "fewer_accounts" THEN SubSeq(list, 1, 11)
             ELSE IF shape = "more_accounts"
             THEN Append(list, Account(taker, FALSE))
             ELSE list,
         data |-> << >>]

\* Every Take of any escrow address by any taker naming any maker and any
\* mints, and each departure from it on one base request per taker and maker.
TakeRequests ==
    {TakeRequest("ok", taker, maker, escrow, mint_a, mint_b) :
        taker \in Wallets, maker \in Wallets, escrow \in PdaKeys,
        mint_a \in MintKeys, mint_b \in MintKeys}
    \cup
    {TakeRequest(shape, taker, maker, get_escrow_pda(maker, 0),
                 FundedMint(maker), OtherMint(FundedMint(maker))) :
        shape \in TakeShapes, taker \in Wallets, maker \in Wallets}

\* ---------------------------------------------------------- the machine
Ledger == World(escrows, tokens, lamports)

NoRequest == [op |-> "none", ok |-> TRUE, err |-> "", log |-> << >>,
              accounts |-> << >>, data |-> << >>]

\* The token accounts the test ledger funds: wallet 1 holds mint 11 and
\* wallet 2 holds mint 12 (init_ata).
Funded == {Ata(w, FundedMint(w)) : w \in Wallets}

TokenOwner(k) == CHOOSE o \in Owners : \E m \in MintKeys : k = Ata(o, m)
TokenMint(k) == CHOOSE m \in MintKeys : \E o \in Owners : k = Ata(o, m)

\* The other token accounts a ledger user may have created: the wallets'
\* remaining associated accounts and those of the seed-0 escrow addresses.
ExtraKeys ==
    {Ata(o, m) : o \in Wallets \cup {get_escrow_pda(w, 0) : w \in Wallets},
                 m \in MintKeys} \ Funded

\* The ledger before the first request: no escrow is open, the funded token
\* accounts hold InitTokens, and at most one more associated token account
\* has already been created (empty) by some ledger user.
Init ==
    /\ escrows = [k \in PdaKeys |-> NoAccount]
    /\ \E extra \in {{}} \cup {{k} : k \in ExtraKeys} :
          tokens = [k \in AtaKeys |->
                       IF k \in Funded \/ k \in extra
                       THEN [exists |-> TRUE, mint |-> TokenMint(k),
                             owner |-> TokenOwner(k),
                             amount |-> IF k \in Funded THEN InitTokens ELSE 0]
                       ELSE NoAccount]
    /\ lamports = [w \in Wallets |-> InitLamports]
    /\ prev = World(escrows, tokens, lamports)
    /\ last = NoRequest
    /\ requests = 0

\* The host runs a request to completion and commits its effects only when
\* it succeeds; a failed request leaves the ledger as it was.
Commit(op, req, r) ==
    /\ requests' = requests + 1
    /\ prev' = Ledger
    /\ last' = [op |-> op, ok |-> r.ok, err |-> r.err, log |-> r.log,
                accounts |-> req.accounts, data |-> req.data]
    /\ escrows' = IF r.ok THEN r.w.escrows ELSE escrows
    /\ tokens' = IF r.ok THEN r.w.tokens ELSE tokens
    /\ lamports' = IF r.ok THEN r.w.lamports ELSE lamports

\* Discriminator 0
Make ==
    /\ requests < MaxRequests
    /\ \E req \in MakeRequests :
          Commit("Make", req, MakeRun(Ledger, req.data, req.accounts))

\* Discriminator 1
Take ==
    /\ requests < MaxRequests
    /\ \E req \in TakeRequests :
          Commit("Take", req, TakeRun(Ledger, req.accounts))

Next == Make \/ Take

Spec == Init /\ [][Next]_vars

\* ------------------------------------------------------------ observations
\* The last request's positional accounts and payload, and balances.
Key(i) == last.accounts[i].key
MakeOk == last.op = "Make" /\ last.ok
TakeOk == last.op = "Take" /\ last.ok
PayloadSeed == from_le_bytes(SubSeq(last.data, 1, 8))
PayloadReceive == from_le_bytes(SubSeq(last.data, 9, 16))
PayloadAmount == from_le_bytes(SubSeq(last.data, 17, 24))
Open(w, k) == w.escrows[k].exists
Balance(w, k) == IF w.tokens[k].exists THEN w.tokens[k].amount ELSE 0
Ran(step) == \E i \in 1 .. Len(last.log) : last.log[i] = step

\* C1: per (maker, seed) the escrow is Absent or Open; it becomes Open only
\* by a successful Make for that maker and seed, which finds it Absent, and
\* Absent only by a successful Take of that escrow, which finds it Open; a
\* failed request changes nothing; every open record sits at the address of
\* its own (maker, seed), so there is at most one open order per pair.
C1_StateMachine ==
    /\ \A k \in PdaKeys :
          /\ (~Open(prev, k) /\ Open(Ledger, k)) =>
                 MakeOk /\ get_escrow_pda(Key(1), PayloadSeed) = k
          /\ (Open(prev, k) /\ ~Open(Ledger, k)) => TakeOk /\ Key(3) = k
          /\ Open(Ledger, k) =>
                 get_escrow_pda(escrows[k].maker, escrows[k].seed) = k
    /\ MakeOk => LET k == get_escrow_pda(Key(1), PayloadSeed)
                 IN  ~Open(prev, k) /\ Open(Ledger, k)
    /\ TakeOk => Open(prev, Key(3)) /\ ~Open(Ledger, Key(3))
    /\ ~last.ok => Ledger = prev

C1_Witness ==
    /\ TakeOk /\ Open(prev, Key(3)) /\ ~Open(Ledger, Key(3))
    /\ requests = 2

\* C2 (as claimed): after a successful Take by a taker other than the maker,
\* the maker's balance of the record's mint_b has grown by record.receive and
\* the taker's balance of that mint has shrunk by record.receive.
C2_PaidInRecordMintB ==
    (TakeOk /\ Key(1) # Key(2)) =>
        LET rec == prev.escrows[Key(3)]
            maker_b == Ata(rec.maker, rec.mint_b)
            taker_b == Ata(Key(1), rec.mint_b)
        IN  /\ Balance(Ledger, maker_b) = Balance(prev, maker_b) + rec.receive
            /\ Balance(Ledger, taker_b) = Balance(prev, taker_b) - rec.receive

\* C3 (as claimed): after a successful Take by a taker other than the maker,
\* the taker's balance of the record's mint_a has grown by the balance the
\* escrow's vault held before the request.
C3_TakerGetsWholeVault ==
    (TakeOk /\ Key(1) # Key(2)) =>
        LET rec == prev.escrows[Key(3)]
            taker_a == Ata(Key(1), rec.mint_a)
            vault == Ata(Key(3), rec.mint_a)
        IN  Balance(Ledger, taker_a) =
                Balance(prev, taker_a) + Balance(prev, vault)

\* C4 (as claimed): between requests an open record has its vault, the
\* associated account of (escrow address, record.mint_a), and an escrow
\* address without a record has no associated account holding tokens.
C4_RecordIffVault ==
    \A k \in PdaKeys :
        /\ Open(Ledger, k) => tokens[Ata(k, escrows[k].mint_a)].exists
        /\ ~Open(Ledger, k) => \A m \in MintKeys : Balance(Ledger, Ata(k, m)) = 0

\* C5: a Take that paid out and closed the vault but whose transfer from the
\* taker to the maker did not go through has failed for insufficient funds,
\* and the ledger (records, vaults, balances, lamports) is as it was before.
C5_AtomicFailure ==
    (last.op = "Take" /\ Ran("CloseVault") /\ ~Ran("TransferToMaker")) =>
        /\ ~last.ok
        /\ last.err = "InsufficientFunds"
        /\ Ran("TransferToTaker")
        /\ Ledger = prev
        /\ Balance(prev, Key(8)) < prev.escrows[Key(3)].receive

C5_Witness ==
    /\ last.op = "Take" /\ ~last.ok /\ Ran("CloseVault")
    /\ Balance(prev, Key(6)) > 0
    /\ Balance(Ledger, Key(6)) = Balance(prev, Key(6))
    /\ Open(Ledger, Key(3))

\* Whether the address recomputed from ("escrow", supplied maker, record.seed,
\* record.bump) fails to be the supplied escrow account's address.
Mismatch ==
    LET rec == prev.escrows[Key(3)]
        k == create_program_address(Key(2), to_le_bytes(rec.seed), rec.bump)
    IN  ~k.ok \/ k.key # Key(3)

TakeOfOpenEscrow ==
    last.op = "Take" /\ Len(last.accounts) = 12 /\ Open(prev, Key(3))

\* C6 (as claimed): a Take of an open escrow whose recomputed address differs
\* from the supplied escrow address fails with an authentication/ownership
\* error and changes nothing.
C6_MismatchIsAuthError ==
    (TakeOfOpenEscrow /\ Mismatch) =>
        /\ ~last.ok
        /\ last.err \in {"InvalidAccountOwner", "InvalidSeeds", "InvalidOwner"}
        /\ Ledger = prev

\* C6 (amended): a Take succeeds only if the recomputed address equals the
\* supplied escrow address; when they differ the Take fails and changes
\* nothing, and if the account checks and create-if-absent steps that run
\* before the comparison pass, the error is InvalidAccountOwner, or
\* InvalidSeeds when the recomputation yields no address.
C6_Authentication ==
    /\ TakeOk => ~Mismatch
    /\ (TakeOfOpenEscrow /\ Mismatch) =>
          /\ ~last.ok
          /\ Ledger = prev
          /\ TakeTryFrom(prev, last.accounts).ok =>
                 last.err \in {"InvalidAccountOwner", "InvalidSeeds"}

C6_Witness ==
    /\ TakeOfOpenEscrow /\ Mismatch /\ ~last.ok
    /\ last.err = "InvalidAccountOwner"
    /\ Key(2) # prev.escrows[Key(3)].maker
    /\ Balance(prev, Key(6)) > 0

\* C7: after a successful Make the record at the derived address holds the
\* payload's seed and receive, the maker, the two mints and the canonical
\* bump; the vault holds amount; the maker's mint_a account lost amount.
C7_MakePostcondition ==
    MakeOk =>
        LET pda == find_program_address(Key(1), to_le_bytes(PayloadSeed))
        IN  /\ Key(2) = pda[1]
            /\ escrows[pda[1]] =
                   [exists |-> TRUE, seed |-> PayloadSeed, maker |-> Key(1),
                    mint_a |-> Key(3), mint_b |-> Key(4),
                    receive |-> PayloadReceive, bump |-> pda[2]]
            /\ Key(6) = Ata(pda[1], Key(3))
            /\ Balance(Ledger, Key(6)) = PayloadAmount
            /\ Balance(Ledger, Ata(Key(1), Key(3))) =
                   Balance(prev, Ata(Key(1), Key(3))) - PayloadAmount

C7_Witness ==
    /\ MakeOk /\ PayloadAmount = 2 /\ PayloadReceive = 1 /\ PayloadSeed = 1
    /\ escrows[Key(2)].bump = 255

\* C8 (as claimed): a Take of an escrow address that holds no record fails at
\* the program-ownership check and changes nothing.
C8_AbsentFailsAtOwnerCheck ==
    (last.op = "Take" /\ ~Open(prev, Key(3))) =>
        ~last.ok /\ last.err = "InvalidOwner" /\ Ledger = prev

\* C8 (amended): a Take of an escrow address that holds no record fails and
\* changes nothing; it fails at the program-ownership check when it has its
\* 12 accounts and its taker signed, and at the account-count or the signer
\* check, which run first, otherwise.
C8_AbsentFails ==
    (last.op = "Take" /\ ~Open(prev, Key(3))) =>
        /\ ~last.ok
        /\ Ledger = prev
        /\ last.log = << >>
        /\ last.err = IF Len(last.accounts) # 12 THEN "NotEnoughAccountKeys"
                      ELSE IF ~last.accounts[1].is_signer THEN "NotSigner"
                      ELSE "InvalidOwner"

\* A second Take of an escrow after a first one settled it: the taker,
\* wallet 2, holds mint-11 tokens, which only a Take can have paid out.
C8_Witness ==
    /\ last.op = "Take" /\ ~last.ok /\ last.err = "InvalidOwner"
    /\ requests = 3 /\ ~Open(prev, Key(3))
    /\ Key(1) = 2 /\ Key(4) = 11 /\ Balance(prev, Ata(2, 11)) > 0

\* C9 (as claimed): a Make whose payload has amount = 0 fails with the
\* invalid-payload error before any account is created.
C9_ZeroAmountIsInvalidData ==
    (last.op = "Make" /\ Len(last.data) = 24 /\ PayloadAmount = 0) =>
        /\ ~last.ok
        /\ last.err = "InvalidInstructionData"
        /\ last.log = << >>
        /\ Ledger = prev

\* C9 (amended): a Make whose payload has amount = 0 fails, for every seed
\* and receive, before any account is created and without changing the
\* ledger; the error is the invalid-payload error whenever the account list
\* passes the account checks, which run first, and that check's error
\* otherwise.
C9_ZeroAmountRejected ==
    (last.op = "Make" /\ Len(last.data) = 24 /\ PayloadAmount = 0) =>
        /\ ~last.ok
        /\ last.log = << >>
        /\ Ledger = prev
        /\ LET a == MakeAccountsTryFrom(prev, last.accounts)
           IN  last.err = IF a.ok THEN "InvalidInstructionData" ELSE a.err

C9_Witness ==
    /\ last.op = "Make" /\ Len(last.data) = 24 /\ PayloadAmount = 0
    /\ PayloadSeed = 1 /\ PayloadReceive = 1
    /\ ~last.ok /\ last.err = "InvalidInstructionData"
    /\ Balance(prev, Ata(Key(1), Key(3))) > 0

\* C10 (as claimed): a Make whose payload is not 24 bytes long fails with
\* the invalid-payload error, a Make without exactly 9 accounts or a Take
\* without exactly 12 fails with the account-count error, and in each case
\* nothing is created or changed.
C10_WrongShapeErrors ==
    /\ (last.op = "Make" /\ Len(last.data) # 24) =>
          last.err = "InvalidInstructionData"
    /\ (last.op = "Make" /\ Len(last.accounts) # 9) =>
          last.err = "NotEnoughAccountKeys"
    /\ (last.op = "Take" /\ Len(last.accounts) # 12) =>
          last.err = "NotEnoughAccountKeys"
    /\ (\/ last.op = "Make" /\ (Len(last.data) # 24 \/ Len(last.accounts) # 9)
        \/ last.op = "Take" /\ Len(last.accounts) # 12) =>
          ~last.ok /\ last.log = << >> /\ Ledger = prev

\* C10 (amended): as claimed, except that the wrong-length payload gives the
\* invalid-payload error only when the account list passes the account
\* checks, which run before the payload is parsed; otherwise the Make fails
\* with that check's error.
C10_WrongShapeRejected ==
    /\ (last.op = "Make" /\ Len(last.data) # 24) =>
          LET a == MakeAccountsTryFrom(prev, last.accounts)
          IN  last.err = IF a.ok THEN "InvalidInstructionData" ELSE a.err
    /\ (last.op = "Make" /\ Len(last.accounts) # 9) =>
          last.err = "NotEnoughAccountKeys"
    /\ (last.op = "Take" /\ Len(last.accounts) # 12) =>
          last.err = "NotEnoughAccountKeys"
    /\ (\/ last.op = "Make" /\ (Len(last.data) # 24 \/ Len(last.accounts) # 9)
        \/ last.op = "Take" /\ Len(last.accounts) # 12) =>
          ~last.ok /\ last.log = << >> /\ Ledger = prev

C10_Witness ==
    /\ last.op = "Make" /\ Len(last.data) = 25 /\ Len(last.accounts) = 9
    /\ ~last.ok /\ last.err = "InvalidInstructionData"
    /\ requests = 2 /\ \E k \in PdaKeys : Open(Ledger, k)

\* The escrow address a Make request is for, and the token accounts a
\* request created.
MakeTarget == get_escrow_pda(Key(1), PayloadSeed)
Created == {k \in AtaKeys : tokens[k].exists /\ ~prev.tokens[k].exists}
TokenRent == MinimumBalance(TokenAccountLen)

\* C11: the vault of an open escrow, the associated account of (escrow,
\* record.mint_a), exists; right after the Make that opened the escrow it
\* holds the payload's amount, and no later request changes its balance as
\* long as the escrow stays open.
C11_VaultHoldsDeposit ==
    \A k \in PdaKeys :
        Open(Ledger, k) =>
            LET v == Ata(k, escrows[k].mint_a)
            IN  /\ tokens[v].exists
                /\ tokens[v].amount > 0
                /\ IF Open(prev, k)
                   THEN /\ prev.escrows[k].mint_a = escrows[k].mint_a
                        /\ prev.tokens[v].exists
                        /\ tokens[v].amount = prev.tokens[v].amount
                   ELSE /\ MakeOk /\ Key(2) = k /\ Key(6) = v
                        /\ tokens[v].amount = PayloadAmount

C11_Witness ==
    /\ TakeOk /\ requests = 3
    /\ \E k \in PdaKeys :
          /\ Open(prev, k) /\ Open(Ledger, k) /\ k # Key(3)
          /\ tokens[Ata(k, escrows[k].mint_a)].amount = MaxAmount

\* C12: a record that is open before and after a request is the same record;
\* a Make for a (maker, seed) whose escrow is open fails without creating or
\* changing anything, and when its accounts and payload are otherwise valid
\* it fails in the creation of the record account at the occupied address.
C12_RecordImmutable ==
    /\ \A k \in PdaKeys :
          (Open(prev, k) /\ Open(Ledger, k)) => escrows[k] = prev.escrows[k]
    /\ (/\ last.op = "Make" /\ Len(last.accounts) = 9 /\ Len(last.data) = 24
        /\ Open(prev, MakeTarget)) =>
          /\ ~last.ok
          /\ last.log = << >>
          /\ Ledger = prev
          /\ (/\ MakeAccountsTryFrom(prev, last.accounts).ok
              /\ MakeInstructionDataTryFrom(last.data).ok
              /\ Key(2) = MakeTarget) => last.err = "AccountAlreadyInUse"

C12_Witness ==
    /\ last.op = "Make" /\ ~last.ok /\ last.err = "AccountAlreadyInUse"
    /\ Len(last.accounts) = 9 /\ Key(2) = MakeTarget /\ Open(prev, Key(2))
    /\ Key(3) # prev.escrows[Key(2)].mint_a
    /\ PayloadReceive # prev.escrows[Key(2)].receive

\* C13: after a successful Take the closed token account and the closed
\* record are gone, their two storage deposits have been added to the
\* lamports of the record's maker, and no other wallet's lamports grew: the
\* taker only paid for the token accounts the request created.
C13_DepositsToMaker ==
    TakeOk =>
        LET maker == prev.escrows[Key(3)].maker
            refund == TokenRent + MinimumBalance(EscrowLen)
            cost(w) == IF w = Key(1) THEN Cardinality(Created) * TokenRent
                       ELSE 0
        IN  /\ Key(2) = maker
            /\ ~Open(Ledger, Key(3))
            /\ prev.tokens[Key(6)].exists /\ ~tokens[Key(6)].exists
            /\ lamports[maker] = prev.lamports[maker] + refund - cost(maker)
            /\ \A w \in Wallets \ {maker} :
                  lamports[w] = prev.lamports[w] - cost(w)

C13_Witness ==
    /\ TakeOk /\ Key(1) # Key(2)
    /\ Cardinality(Created) = 2
    /\ lamports[Key(2)] = InitLamports
    /\ lamports[Key(1)] = InitLamports - 2 * TokenRent

\* C14: every open record holds the canonical bump of its (maker, seed), and
\* the address recomputed from (maker, record.seed, record.bump) is the
\* address the record sits at, the one the canonical-bump search returns; so
\* a Take that names the record's maker and gets past the account checks and
\* create-if-absent steps passes the authentication check.
C14_SameAddress ==
    /\ \A k \in PdaKeys :
          Open(Ledger, k) =>
              LET rec == escrows[k]
                  found == find_program_address(rec.maker, to_le_bytes(rec.seed))
                  again == create_program_address(
                               rec.maker, to_le_bytes(rec.seed), rec.bump)
              IN  /\ found = <<k, rec.bump>>
                  /\ again = [ok |-> TRUE, key |-> k]
                  /\ get_escrow_pda(rec.maker, rec.seed) = k
    /\ (/\ TakeOfOpenEscrow /\ Key(2) = prev.escrows[Key(3)].maker
        /\ TakeTryFrom(prev, last.accounts).ok) =>
          Ran("CheckEscrow") /\ last.err # "InvalidAccountOwner"

C14_Witness ==
    /\ TakeOk /\ Ran("CheckEscrow")
    /\ prev.escrows[Key(3)].bump = 254
    /\ Key(2) = prev.escrows[Key(3)].maker

\* The Take a client builds from an open record with the genuine accounts.
GenuineTake(k, taker) ==
    TakeRequest("ok", taker, escrows[k].maker, k, escrows[k].mint_a,
                escrows[k].mint_b)

\* C15: in every state, for every open escrow and every wallet whose
\* canonical mint_b account exists and holds at least record.receive and
\* whose lamports cover the token accounts still to be created, the Take
\* that wallet signs with the genuine accounts succeeds.
C15_Permissionless ==
    \A k \in PdaKeys : \A taker \in Wallets :
        Open(Ledger, k) =>
            LET rec == escrows[k]
                pay == Ata(taker, rec.mint_b)
                missing == {x \in {Ata(taker, rec.mint_a),
                                   Ata(rec.maker, rec.mint_b)} :
                               ~tokens[x].exists}
            IN  (/\ tokens[pay].exists
                 /\ tokens[pay].amount >= rec.receive
                 /\ lamports[taker] >= Cardinality(missing) * TokenRent) =>
                    TakeRun(Ledger, GenuineTake(k, taker).accounts).ok

C15_Witness ==
    /\ TakeOk /\ Key(1) # Key(2) /\ ~last.accounts[2].is_signer
    /\ Key(4) = prev.escrows[Key(3)].mint_a
    /\ Key(5) = prev.escrows[Key(3)].mint_b
    /\ ~prev.tokens[Key(7)].exists /\ ~prev.tokens[Key(9)].exists
    /\ prev.escrows[Key(3)].receive > 0

\* C16 (as claimed): a Take succeeds only when the mint accounts it is given
\* are the record's mint_a and mint_b, and the token account it empties and
\* closes is the associated account of (escrow, record.mint_a).
C16_TakeNeedsRecordMints ==
    TakeOk =>
        LET rec == prev.escrows[Key(3)]
        IN  /\ Key(4) = rec.mint_a
            /\ Key(5) = rec.mint_b
            /\ Key(6) = Ata(Key(3), rec.mint_a)

\* The steps of Take::process that move tokens or close accounts, in the
\* order the last request ran them.
TakeSteps == <<"TransferToTaker", "CloseVault", "TransferToMaker", "CloseEscrow">>
StepsRun ==
    SelectSeq(last.log, LAMBDA s : \E i \in 1 .. Len(TakeSteps) : TakeSteps[i] = s)

\* C17: the steps a Take ran are an initial part of: vault payout, vault
\* closure, payment from taker to maker, record closure; each ran at most
\* once and after the authentication; the Take succeeded exactly when all four
\* ran, so the record is closed only after the other three, and a failed Take
\* ran nothing after the step that failed and left the ledger as it was.
C17_StepOrder ==
    last.op = "Take" =>
        /\ Len(StepsRun) <= Len(TakeSteps)
        /\ StepsRun = SubSeq(TakeSteps, 1, Len(StepsRun))
        /\ last.ok <=> StepsRun = TakeSteps
        /\ StepsRun # << >> => Ran("CheckEscrow")
        /\ last.ok => last.log[Len(last.log)] = "CloseEscrow"
        /\ ~last.ok => Ledger = prev

C17_Witness ==
    /\ TakeOk
    /\ last.log = <<"InitAta", "InitAta", "CheckEscrow", "TransferToTaker",
                    "CloseVault", "TransferToMaker", "CloseEscrow">>

\* C18 (as claimed): a Take of an open escrow that fails the authentication
\* has not run a create-if-absent that created a token account.
C18_AuthBeforeCreation ==
    (/\ TakeOfOpenEscrow /\ Mismatch /\ ~last.ok
     /\ last.err \in {"InvalidAccountOwner", "InvalidSeeds"}) =>
        ~Ran("InitAta")

\* The escrow address the last request is for.
Target == IF last.op = "Make" THEN MakeTarget ELSE Key(3)

\* Distinct (maker, seed) pairs have distinct escrow addresses and vaults.
AddressesDistinct ==
    \A w1 \in Wallets : \A w2 \in Wallets :
    \A s1 \in Seeds : \A s2 \in Seeds :
        <<w1, s1>> # <<w2, s2>> =>
            /\ get_escrow_pda(w1, s1) # get_escrow_pda(w2, s2)
            /\ \A m1 \in MintKeys : \A m2 \in MintKeys :
                  Ata(get_escrow_pda(w1, s1), m1) #
                      Ata(get_escrow_pda(w2, s2), m2)

\* C19: distinct (maker, seed) pairs have distinct escrow addresses and
\* distinct vault addresses, and a request for one escrow address, whether it
\* succeeds or fails, leaves every other open escrow open with the same
\* record and the same vault balance.
C19_Independent ==
    /\ AddressesDistinct
    /\ \A k \in PdaKeys :
          (Open(prev, k) /\ k # Target) =>
              LET v == Ata(k, prev.escrows[k].mint_a)
              IN  /\ Open(Ledger, k)
                  /\ escrows[k] = prev.escrows[k]
                  /\ Balance(Ledger, v) = Balance(prev, v)
                  /\ Balance(Ledger, v) > 0

C19_Witness ==
    /\ TakeOk /\ requests = 3
    /\ \E k \in PdaKeys :
          /\ k # Key(3) /\ Open(prev, k) /\ Open(Ledger, k)
          /\ escrows[k].maker = Key(2)
          /\ escrows[k].seed # prev.escrows[Key(3)].seed

\* The sum of the balances of the token accounts of one mint.
RECURSIVE SumAmounts(_, _)
SumAmounts(w, keys) ==
    IF keys = {} THEN 0
    ELSE LET k == CHOOSE x \in keys : TRUE
         IN  Balance(w, k) + SumAmounts(w, keys \ {k})

Supply(w, mint) ==
    SumAmounts(w, {k \in AtaKeys : w.tokens[k].exists /\ w.tokens[k].mint = mint})

Flow(k, to, from, amount) ==
    (IF k = to THEN amount ELSE 0) - (IF k = from THEN amount ELSE 0)

\* C20: the supply of each mint over all token accounts never changes; a
\* successful Make moves the payload's amount from the maker's account to
\* the vault and nothing else; a successful Take moves the whole balance of
\* the vault to the taker's account and record.receive from the taker's to
\* the maker's account and nothing else; the only token account that ever
\* disappears is the vault a successful Take emptied.
C20_Conservation ==
    /\ \A m \in MintKeys :
          Supply(Ledger, m) = Supply(prev, m) /\ Supply(Ledger, m) = InitTokens
    /\ MakeOk => \A k \in AtaKeys :
          Balance(Ledger, k) =
              Balance(prev, k) + Flow(k, Key(6), Key(5), PayloadAmount)
    /\ TakeOk => \A k \in AtaKeys :
          Balance(Ledger, k) =
              Balance(prev, k)
              + Flow(k, Key(7), Key(6), Balance(prev, Key(6)))
              + Flow(k, Key(9), Key(8), prev.escrows[Key(3)].receive)
    /\ \A k \in AtaKeys :
          (prev.tokens[k].exists /\ ~tokens[k].exists) =>
              TakeOk /\ k = Key(6) /\ Ran("TransferToTaker")

C20_Witness ==
    /\ TakeOk /\ Key(1) # Key(2)
    /\ Balance(prev, Key(6)) = MaxAmount
    /\ prev.escrows[Key(3)].receive = MaxReceive
    /\ Balance(Ledger, Key(7)) = MaxAmount
    /\ Balance(Ledger, Key(9)) = MaxReceive

====
